---- MODULE Spec2Model ----
(***************************************************************************)
(* Link lifecycle of MavlinkComponent (src/App.tsx): connect / disconnect  *)
(* handlers, the connection watchdog timer, the telemetry poller and the   *)
(* failure handler, with the transport (connectionManager) as environment. *)
(*                                                                         *)
(* Every await of the source is a point where the handler is parked in the *)
(* state (att, tasks, fetches) and resumed by a later action.  A handler   *)
(* is a closure of the render in which it was created, so the values of    *)
(* selectedMode, selectedDevice and isConnecting it reads are the ones     *)
(* captured when it was started; refs (dataIntervalRef,                    *)
(* connectionTimeoutRef) are read live.                                    *)
(*                                                                         *)
(* Two further parts have specifications of their own: the device scan of  *)
(* the serial configuration modal (ScanSpec) and the serial log variant of *)
(* src/unnamed/part_000 (LogSpec).                                         *)
(***************************************************************************)
EXTENDS Integers, Sequences, FiniteSets, TLC

MaxPending == 2

Modes == {"TCP", "UDP", "SERIAL"}

Statuses == {"DISCONNECTED", "CONNECTING", "CONNECTED", "ERROR"}

VARIABLES
    managerState,          \* [status, error]: what connectionManager.getState() returns
    connectionState,       \* [status, error]: the state last pushed to the component
    isConnecting,          \* local connecting flag
    mavlinkData,           \* "null" | "empty" | "data"
    selectedMode,
    selectedDevice,        \* the selected serial device, Null when none
    baudRate,              \* the baud-rate text, a sequence of characters
    dataIntervalRef,       \* id of the poll interval held by the ref, 0 = null
    pollTimers,            \* armed poll intervals: {[id, serial]}
    connectionTimeoutRef,  \* id of the watchdog timeout held by the ref, 0 = null
    wdTimers,              \* armed watchdog timeouts (ids of the attempts that armed them)
    att,                   \* handleConnect invocations in flight
    fetches,               \* fetchMavlinkData invocations in flight, in issue order
    tasks,                 \* handleDisconnect / handleConnectionError / send invocations in flight
    last,                  \* the transport answer the last step consumed, if any
    availableDevices,      \* the device list of the latest completed scan
    isLoadingDevices,      \* a scan is shown as running
    showSerialConfig,      \* the serial configuration modal is open
    scans,                 \* scanForSerialDevices invocations in flight
    isConnected,           \* serial log variant: the connected flag
    mavlinkLog,            \* serial log variant: its mavlinkData, the data log
    toggles,               \* serial log variant: toggleConnection invocations in flight
    arrived,               \* serial log variant: MavlinkDataUpdate events so far
    rejected               \* serial log variant: events so far that were not logged

\* The serial configuration (device scan) apart from the selection itself.
scanVars == <<availableDevices, isLoadingDevices, showSerialConfig, scans>>

\* The serial log variant (src/unnamed/part_000), a component of its own.
logVars == <<isConnected, mavlinkLog, toggles, arrived, rejected>>

vars == <<managerState, connectionState, isConnecting, mavlinkData, selectedMode, selectedDevice,
          baudRate, dataIntervalRef, pollTimers, connectionTimeoutRef,
          wdTimers, att, fetches, tasks, last, scanVars, logVars>>

Ev(op, info) == [op |-> op, info |-> info]
NoEv == Ev("none", "none")

\* Handlers parked at an await: attempts, disconnect / handler tasks, fetches.
Pending == Cardinality(DOMAIN att) + Len(tasks) + Len(fetches)

RemoveAt(s, i) == [j \in 1..(Len(s) - 1) |-> IF j < i THEN s[j] ELSE s[j + 1]]

(***************************************************************************)
(* The part of the component state that status notifications, the          *)
(* status effect and the teardown continuations rewrite.                   *)
(***************************************************************************)
UI == [cs |-> connectionState, ic |-> isConnecting, md |-> mavlinkData,
       ref |-> dataIntervalRef, pt |-> pollTimers, fq |-> fetches]

Commit(u) ==
    /\ connectionState' = u.cs
    /\ isConnecting' = u.ic
    /\ mavlinkData' = u.md
    /\ dataIntervalRef' = u.ref
    /\ pollTimers' = u.pt
    /\ fetches' = u.fq

getEffectiveStatus == IF isConnecting THEN "CONNECTING" ELSE connectionState.status

stopTelemetryPolling(u) ==
    IF u.ref # 0
    THEN [u EXCEPT !.pt = {t \in u.pt : t.id # u.ref}, !.ref = 0]
    ELSE u

FreshTimer(pt) == CHOOSE i \in 1..(Cardinality(pt) + 1) : \A t \in pt : t.id # i

startTelemetryPolling(u, serial) ==
    LET c == IF u.ref # 0 THEN [u EXCEPT !.pt = {t \in u.pt : t.id # u.ref}] ELSE u
        id == FreshTimer(c.pt)
    IN  [c EXCEPT !.fq = Append(@, [pc |-> "fetch", serial |-> serial]),
                  !.pt = @ \cup {[id |-> id, serial |-> serial]},
                  !.ref = id]

StatusEffect_KeepsPolling(u, status, serial) ==
    IF status = "CONNECTED"
    THEN startTelemetryPolling([stopTelemetryPolling(u) EXCEPT !.ic = FALSE], serial)
    ELSE [u EXCEPT !.md = "null"]

StatusEffect(u, status, serial) ==
    LET c == stopTelemetryPolling(u)
    IN  IF status = "CONNECTED"
        THEN startTelemetryPolling([c EXCEPT !.ic = FALSE], serial)
        ELSE LET d == [stopTelemetryPolling(c) EXCEPT !.md = "null"]
             IN  IF status \in {"DISCONNECTED", "ERROR"}
                 THEN [d EXCEPT !.ic = FALSE]
                 ELSE d

setConnectionState(u, status, err) ==
    LET v == [u EXCEPT !.cs = [status |-> status, error |-> err]]
    IN  IF status # u.cs.status THEN StatusEffect(v, status, selectedMode = "SERIAL") ELSE v

(***************************************************************************)
(* Transport teardown calls: stopConnection() and cleanup() either return, *)
(* leaving the transport DISCONNECTED, or throw, leaving it as it was.     *)
(* The component learns of the change by a later notification.             *)
(***************************************************************************)
TransportTeardown(r) ==
    IF r = "ok" THEN [status |-> "DISCONNECTED", error |-> FALSE] ELSE managerState

NeedsCleanup(serial) == serial

TeardownNext(pc, serial, r) ==
    IF pc = "stop" /\ r = "ok" /\ NeedsCleanup(serial) THEN "cleanup" ELSE "end"

\* What runs after the teardown try-block of each handler kind.
TeardownTail(u, kind, r) ==
    CASE kind = "err"   -> [u EXCEPT !.ic = FALSE, !.md = "null"]
      [] kind = "disc"  -> IF r = "ok"
                           THEN [stopTelemetryPolling(u) EXCEPT !.md = "null"]
                           ELSE u
      [] kind = "catch" -> u

TeardownReturn(u, kind, pc, serial, r) ==
    IF TeardownNext(pc, serial, r) = "end" THEN TeardownTail(u, kind, r) ELSE u

(***************************************************************************)
(* Baud rate: the text of the serial configuration and parseInt(text, 10)  *)
(* as handleConnect applies it (line 253): an optional sign, then the      *)
(* longest prefix of decimal digits; NaN when there is no digit.           *)
(***************************************************************************)
DefaultBaud == <<"5", "7", "6", "0", "0">>

BaudTexts == {DefaultBaud, <<>>, <<"a">>, <<"0">>, <<"-", "5">>}

Digits == {"0", "1", "2", "3", "4", "5", "6", "7", "8", "9"}

DigitValue(c) ==
    CASE c = "0" -> 0 [] c = "1" -> 1 [] c = "2" -> 2 [] c = "3" -> 3 [] c = "4" -> 4
      [] c = "5" -> 5 [] c = "6" -> 6 [] c = "7" -> 7 [] c = "8" -> 8 [] c = "9" -> 9

\* Length of the longest prefix of t made of digits.
RECURSIVE DigitPrefix(_)
DigitPrefix(t) ==
    IF t = <<>> \/ Head(t) \notin Digits THEN 0 ELSE 1 + DigitPrefix(Tail(t))

RECURSIVE DecimalValue(_, _)
DecimalValue(t, n) ==
    IF n = 0 THEN 0 ELSE 10 * DecimalValue(t, n - 1) + DigitValue(t[n])

NaN == [nan |-> TRUE, val |-> 0]

parseInt(t) ==
    LET signed == t # <<>> /\ Head(t) \in {"-", "+"}
        body   == IF signed THEN Tail(t) ELSE t
        n      == DigitPrefix(body)
        v      == DecimalValue(body, n)
    IN  IF n = 0 THEN NaN
        ELSE [nan |-> FALSE, val |-> IF signed /\ Head(t) = "-" THEN 0 - v ELSE v]

(***************************************************************************)
(* Device scan (scanForSerialDevices, lines 159-217).  A SerialDevice is   *)
(* [id, path]; its display name and vendor / product ids are carried along *)
(* and never read.  A raw descriptor of the transport has an optional id   *)
(* (<<>> when missing) and a path ("" when missing or empty: both are      *)
(* falsy for the || of lines 173-174).                                     *)
(***************************************************************************)
MaxRaw == 2

\* No device selected (selectedDevice === null).
Null == [id |-> 0 - 1, path |-> "null"]

commonPaths == <<"/dev/ttyUSB0", "/dev/ttyUSB1", "/dev/ttyACM0", "/dev/ttyACM1">>

\* `/dev/ttyUSB${index}` for the indices a raw list can have.
ttyUSB == <<"/dev/ttyUSB0", "/dev/ttyUSB1", "/dev/ttyUSB2", "/dev/ttyUSB3">>

RawDevices ==
    { [id |-> <<>>,  path |-> ""],
      [id |-> <<0>>, path |-> "/dev/ttyUSB0"],
      [id |-> <<1>>, path |-> "/dev/ttyS1"] }

\* What getSerialDeviceInfo() can answer with.
RawLists == UNION {[1..n -> RawDevices] : n \in 0..MaxRaw}

\* Lines 172-178, index counted from 0: device.id || index, device.path || ...
toDevice(device, index) ==
    [id   |-> IF device.id = <<>> \/ device.id[1] = 0 THEN index ELSE device.id[1],
     path |-> IF device.path = "" THEN ttyUSB[index + 1] ELSE device.path]

\* Lines 193-202.
FallbackDevices ==
    [i \in 1..Len(commonPaths) |-> [id |-> i - 1, path |-> commonPaths[i]]]

\* Lines 168-202: the list one scan produces from the transport's answer.
devices(deviceInfo) ==
    LET d == [i \in 1..Len(deviceInfo) |-> toDevice(deviceInfo[i], i - 1)]
    IN  IF Len(d) = 0 THEN FallbackDevices ELSE d

\* The component after construction, the baud-rate text apart; the serial
\* configuration is either untouched or as a first scan that found nothing
\* left it.
InitLink ==
    /\ managerState = [status |-> "DISCONNECTED", error |-> FALSE]
    /\ connectionState = [status |-> "DISCONNECTED", error |-> FALSE]
    /\ isConnecting = FALSE
    /\ mavlinkData = "null"
    /\ selectedMode = "TCP"
    /\ selectedDevice \in {Null, FallbackDevices[1]}
    /\ availableDevices = IF selectedDevice = Null THEN <<>> ELSE FallbackDevices
    /\ isLoadingDevices = FALSE
    /\ showSerialConfig = FALSE
    /\ scans = <<>>
    /\ isConnected = FALSE
    /\ mavlinkLog = <<>>
    /\ toggles = <<>>
    /\ arrived = 0
    /\ rejected = 0
    /\ dataIntervalRef = 0
    /\ pollTimers = {}
    /\ connectionTimeoutRef = 0
    /\ wdTimers = {}
    /\ att = [a \in {} |-> NoEv]
    /\ fetches = <<>>
    /\ tasks = <<>>
    /\ last = NoEv

\* The baud-rate text is left at its default.
Init == InitLink /\ baudRate = DefaultBaud

\* The baud-rate text is whatever the serial configuration's input
\* (lines 967-990) was left with.
BaudInit == InitLink /\ baudRate \in BaudTexts

(***************************************************************************)
(* handleConnect                                                           *)
(***************************************************************************)
ConfigInvalid_Unchecked(mode, dev) == FALSE

ConfigInvalid(mode, dev) == mode = "SERIAL" /\ dev = Null

\* Identity of a new attempt and of the timeout it arms.
FreshId ==
    CHOOSE i \in 1..(MaxPending + 2) :
        /\ i \notin (DOMAIN att \cup wdTimers \cup {connectionTimeoutRef})
        /\ \A j \in 1..(i - 1) : j \in (DOMAIN att \cup wdTimers \cup {connectionTimeoutRef})

Drop(a) == [b \in DOMAIN att \ {a} |-> att[b]]

\* Synchronous part of handleConnect, up to its first await.
handleConnect ==
    /\ ~(isConnecting \/ getEffectiveStatus = "CONNECTED")
    /\ Pending < MaxPending
    /\ LET invalid == ConfigInvalid(selectedMode, selectedDevice)
           a == FreshId
       IN  /\ isConnecting' = ~invalid
           /\ wdTimers' = IF invalid
                          THEN wdTimers \ {connectionTimeoutRef}
                          ELSE (wdTimers \ {connectionTimeoutRef}) \cup {a}
           /\ connectionTimeoutRef' = IF invalid THEN 0 ELSE a
           /\ att' = att @@ (a :>
                        [pc |-> IF invalid THEN "stop" ELSE "start",
                         serial |-> selectedMode = "SERIAL",
                         dev |-> selectedDevice,
                         baud |-> IF selectedMode = "SERIAL"
                                  THEN parseInt(baudRate) ELSE NaN,
                         capConnecting |-> isConnecting,
                         failedAt |-> IF invalid THEN "config" ELSE "none",
                         cancelled |-> FALSE])
           /\ last' = NoEv
    /\ UNCHANGED <<managerState, connectionState, mavlinkData, selectedMode, selectedDevice, baudRate,
                   dataIntervalRef, pollTimers, fetches, tasks>>
    /\ UNCHANGED <<scanVars, logVars>>

ClearWatchdog_RefOnly ==
    /\ wdTimers' = wdTimers
    /\ connectionTimeoutRef' = 0

\* Lines 270-273 and 305-308: clear whatever timeout the ref holds.
ClearWatchdog ==
    /\ wdTimers' = wdTimers \ {connectionTimeoutRef}
    /\ connectionTimeoutRef' = 0

\* catch block of handleConnect up to its await of stopConnection.
EnterCatch(a, where) ==
    /\ ClearWatchdog
    /\ isConnecting' = FALSE
    /\ att' = [att EXCEPT ![a].pc = "stop", ![a].failedAt = where]
    /\ last' = NoEv
    /\ UNCHANGED <<connectionState, mavlinkData, dataIntervalRef, pollTimers, fetches>>

\* Lines 267-276: handshake answered, timer cleared, settle interval starts.
EnterSettle(a) ==
    /\ ClearWatchdog
    /\ att' = [att EXCEPT ![a].pc = "settle"]
    /\ last' = NoEv
    /\ UNCHANGED <<connectionState, isConnecting, mavlinkData, dataIntervalRef,
                   pollTimers, fetches>>

\* startConnection(mode) returns or throws.
StartReturns(a, r) ==
    /\ att[a].pc = "start"
    /\ IF r = "throw"
       THEN EnterCatch(a, "start")
       ELSE IF att[a].serial
            THEN /\ att' = [att EXCEPT ![a].pc = "bind"]
                 /\ last' = NoEv
                 /\ UNCHANGED <<connectionState, isConnecting, mavlinkData,
                                dataIntervalRef, pollTimers, fetches,
                                connectionTimeoutRef, wdTimers>>
            ELSE EnterSettle(a)
    /\ UNCHANGED <<managerState, selectedMode, selectedDevice, baudRate, tasks>>
    /\ UNCHANGED <<scanVars, logVars>>

\* connectSerialDevice(...) returns true, returns false, or throws.
BindReturns(a, r) ==
    /\ att[a].pc = "bind"
    /\ IF r = "true" THEN EnterSettle(a) ELSE EnterCatch(a, "bind")
    /\ UNCHANGED <<managerState, selectedMode, selectedDevice, baudRate, tasks>>
    /\ UNCHANGED <<scanVars, logVars>>

\* Lines 278-291: the settle interval is over, the status is re-read.
SettleCheck(a) ==
    /\ att[a].pc = "settle"
    /\ IF managerState.status # "CONNECTED"
       THEN /\ Commit(stopTelemetryPolling(UI))
            /\ att' = [att EXCEPT ![a].pc = "stop", ![a].failedAt = "settle"]
            /\ last' = NoEv
       ELSE /\ Commit(UI)
            /\ att' = [att EXCEPT ![a].pc = "verify"]
            /\ last' = NoEv
    /\ UNCHANGED <<managerState, selectedMode, selectedDevice, baudRate, connectionTimeoutRef, wdTimers, tasks>>
    /\ UNCHANGED <<scanVars, logVars>>

\* Lines 290-299: the test fetch answers (any way), the attempt ends.
VerifyReturns(a) ==
    /\ att[a].pc = "verify"
    /\ isConnecting' = FALSE
    /\ att' = Drop(a)
    /\ last' = NoEv
    /\ UNCHANGED <<managerState, connectionState, mavlinkData, selectedMode, selectedDevice, baudRate,
                   dataIntervalRef, pollTimers,
                   connectionTimeoutRef, wdTimers, fetches, tasks>>
    /\ UNCHANGED <<scanVars, logVars>>

AttKind(a) == IF att[a].failedAt = "settle" THEN "err" ELSE "catch"

\* stopConnection() / cleanup() awaited by the attempt's failure path answers.
AttemptTeardownReturns(a, r) ==
    /\ att[a].pc \in {"stop", "cleanup"}
    /\ Commit(TeardownReturn(UI, AttKind(a), att[a].pc, att[a].serial, r))
    /\ managerState' = TransportTeardown(r)
    /\ IF TeardownNext(att[a].pc, att[a].serial, r) = "cleanup"
       THEN att' = [att EXCEPT ![a].pc = "cleanup"]
       ELSE att' = Drop(a)
    /\ last' = Ev("teardown", r)
    /\ UNCHANGED <<selectedMode, selectedDevice, baudRate, connectionTimeoutRef, wdTimers, tasks>>
    /\ UNCHANGED <<scanVars, logVars>>

\* Lines 231-235: the watchdog timeout fires; its callback reads the
\* isConnecting of the render that created it.
WatchdogFire(a) ==
    /\ a \in wdTimers
    /\ a \in DOMAIN att
    /\ wdTimers' = wdTimers \ {a}
    /\ IF att[a].capConnecting
       THEN /\ Pending < MaxPending
            /\ Commit(stopTelemetryPolling(UI))
            /\ tasks' = Append(tasks, [kind |-> "err", pc |-> "stop",
                                       serial |-> att[a].serial])
       ELSE /\ Commit(UI)
            /\ tasks' = tasks
    /\ last' = NoEv
    /\ UNCHANGED <<managerState, selectedMode, selectedDevice, baudRate, connectionTimeoutRef, att>>
    /\ UNCHANGED <<scanVars, logVars>>

(***************************************************************************)
(* handleDisconnect                                                        *)
(***************************************************************************)
handleDisconnect ==
    /\ getEffectiveStatus = "CONNECTED" \/ isConnecting
    /\ Pending < MaxPending
    /\ isConnecting' = FALSE
    /\ ClearWatchdog
    /\ tasks' = Append(tasks, [kind |-> "disc", pc |-> "stop",
                               serial |-> selectedMode = "SERIAL"])
    /\ att' = [a \in DOMAIN att |->
                 IF att[a].pc = "settle" THEN [att[a] EXCEPT !.cancelled = TRUE] ELSE att[a]]
    /\ last' = NoEv
    /\ UNCHANGED <<managerState, connectionState, mavlinkData, selectedMode, selectedDevice, baudRate,
                   dataIntervalRef, pollTimers, fetches>>
    /\ UNCHANGED <<scanVars, logVars>>

\* stopConnection() / cleanup() awaited by a disconnect or by a failure
\* handler started from a timer answers.
TaskTeardownReturns(i, r) ==
    /\ tasks[i].pc \in {"stop", "cleanup"}
    /\ LET t == tasks[i]
       IN  /\ Commit(TeardownReturn(UI, t.kind, t.pc, t.serial, r))
           /\ managerState' = TransportTeardown(r)
           /\ IF TeardownNext(t.pc, t.serial, r) = "cleanup"
              THEN tasks' = [tasks EXCEPT ![i].pc = "cleanup"]
              ELSE tasks' = RemoveAt(tasks, i)
           /\ last' = Ev("teardown", r)
    /\ UNCHANGED <<selectedMode, selectedDevice, baudRate, connectionTimeoutRef, wdTimers, att>>
    /\ UNCHANGED <<scanVars, logVars>>

(***************************************************************************)
(* Telemetry poller                                                        *)
(***************************************************************************)
\* The interval fires: one more fetchMavlinkData is issued.
PollTick(t) ==
    /\ Pending < MaxPending
    /\ fetches' = Append(fetches, [pc |-> "fetch", serial |-> t.serial])
    /\ last' = NoEv
    /\ UNCHANGED <<managerState, connectionState, isConnecting, mavlinkData, selectedMode,
                   selectedDevice, baudRate, dataIntervalRef, pollTimers,
                   connectionTimeoutRef, wdTimers, att, tasks>>
    /\ UNCHANGED <<scanVars, logVars>>

\* Lines 103-116: what fetchMavlinkData does with the answer r of
\* getMavlinkData: publish it, or start the failure handler.
FetchNext_EmptyIsFailure(r) == IF r \in {"throw", "empty"} THEN "stop" ELSE "end"

FetchNext(r) == IF r = "throw" THEN "stop" ELSE "end"

FetchResult(u, r) ==
    IF FetchNext(r) = "stop" THEN stopTelemetryPolling(u) ELSE [u EXCEPT !.md = r]

FetchReturns(i, r) ==
    /\ fetches[i].pc = "fetch"
    /\ LET u == FetchResult(UI, r)
       IN  /\ Commit([u EXCEPT !.fq = IF FetchNext(r) = "end"
                                     THEN RemoveAt(u.fq, i)
                                     ELSE [u.fq EXCEPT ![i].pc = FetchNext(r)]])
           /\ last' = Ev("fetch", r)
    /\ UNCHANGED <<managerState, selectedMode, selectedDevice, baudRate, connectionTimeoutRef, wdTimers, att, tasks>>
    /\ UNCHANGED <<scanVars, logVars>>

\* The failure handler awaited by fetchMavlinkData gets its teardown answer.
FetchTeardownReturns(i, r) ==
    /\ fetches[i].pc \in {"stop", "cleanup"}
    /\ LET f == fetches[i]
           u == TeardownReturn(UI, "err", f.pc, f.serial, r)
       IN  /\ managerState' = TransportTeardown(r)
           /\ Commit([u EXCEPT !.fq = IF TeardownNext(f.pc, f.serial, r) = "cleanup"
                                     THEN [u.fq EXCEPT ![i].pc = "cleanup"]
                                     ELSE RemoveAt(u.fq, i)])
           /\ last' = Ev("teardown", r)
    /\ UNCHANGED <<selectedMode, selectedDevice, baudRate, connectionTimeoutRef, wdTimers, att, tasks>>
    /\ UNCHANGED <<scanVars, logVars>>

(***************************************************************************)
(* Command dispatch                                                        *)
(***************************************************************************)
\* Lines 355-364: the guided command is sent only if the manager reports
\* CONNECTED at the press; otherwise an alert and nothing else.
handleSendGuidedCommand ==
    /\ getEffectiveStatus = "CONNECTED"
    /\ Pending < MaxPending
    /\ tasks' = IF managerState.status = "CONNECTED"
                THEN Append(tasks, [kind |-> "guided", pc |-> "send",
                                    serial |-> selectedMode = "SERIAL"])
                ELSE tasks
    /\ last' = NoEv
    /\ UNCHANGED <<managerState, connectionState, isConnecting, mavlinkData, selectedMode,
                   selectedDevice, baudRate, dataIntervalRef, pollTimers,
                   connectionTimeoutRef, wdTimers, att, fetches>>
    /\ UNCHANGED <<scanVars, logVars>>

\* Line 388: the bytes handed to sendSerialData (0xFE = 254).
heartbeatData == <<254, 9, 0, 1, 1, 0, 0, 0, 4, 8, 0, 0, 3>>

\* Lines 380-389: the heartbeat is sent if the mode is SERIAL and a device
\* is selected; the button exists only in SERIAL mode.
handleSendSerialData ==
    /\ selectedMode = "SERIAL"
    /\ getEffectiveStatus = "CONNECTED"
    /\ Pending < MaxPending
    /\ tasks' = IF selectedMode # "SERIAL" \/ selectedDevice = Null
                THEN tasks
                ELSE Append(tasks, [kind |-> "heartbeat", pc |-> "send", serial |-> TRUE,
                                    data |-> heartbeatData])
    /\ last' = NoEv
    /\ UNCHANGED <<managerState, connectionState, isConnecting, mavlinkData, selectedMode,
                   selectedDevice, baudRate, dataIntervalRef, pollTimers,
                   connectionTimeoutRef, wdTimers, att, fetches>>
    /\ UNCHANGED <<scanVars, logVars>>

\* Lines 367-377 and 392-395: what follows a send that answered r: "ok",
\* "linkloss" (an error whose message mentions the connection) or
\* "rejected" (any other error).
SendNext(kind, r) ==
    IF kind = "guided" /\ r = "linkloss" THEN "stop" ELSE "end"

\* sendGuidedCommand / sendSerialData answers.
SendReturns(i, r) ==
    /\ tasks[i].pc = "send"
    /\ IF SendNext(tasks[i].kind, r) = "stop"
       THEN /\ Commit(stopTelemetryPolling(UI))
            /\ tasks' = [tasks EXCEPT ![i].kind = "err", ![i].pc = "stop"]
       ELSE /\ Commit(UI)
            /\ tasks' = RemoveAt(tasks, i)
    /\ last' = Ev("send", r)
    /\ UNCHANGED <<managerState, selectedMode, selectedDevice, baudRate, connectionTimeoutRef,
                   wdTimers, att>>
    /\ UNCHANGED <<scanVars, logVars>>

(***************************************************************************)
(* Transport (connectionManager): its status changes on its own account,   *)
(* and each change reaches the component by a later call of the subscribed *)
(* setConnectionState (line 66); the render and the status effect that     *)
(* follow it are one step.  Changes not yet delivered are coalesced.       *)
(***************************************************************************)
TransportStep(status, err) ==
    /\ managerState' = [status |-> status, error |-> err]
    /\ last' = NoEv
    /\ UNCHANGED <<connectionState, isConnecting, mavlinkData, selectedMode,
                   selectedDevice, baudRate, dataIntervalRef, pollTimers,
                   connectionTimeoutRef, wdTimers, att, fetches, tasks>>
    /\ UNCHANGED <<scanVars, logVars>>

\* The transport takes up a pending startConnection.
TransportConnecting ==
    /\ \E a \in DOMAIN att : att[a].pc \in {"start", "bind"}
    /\ managerState.status \in {"DISCONNECTED", "ERROR"}
    /\ TransportStep("CONNECTING", FALSE)

LinkUp ==
    /\ managerState.status = "CONNECTING"
    /\ TransportStep("CONNECTED", FALSE)

LinkFail ==
    /\ managerState.status \in {"CONNECTING", "CONNECTED"}
    /\ TransportStep("ERROR", TRUE)

\* The subscribed setConnectionState runs with the manager's state; on a
\* change to CONNECTED the status effect issues the poller's first fetch.
Notify ==
    /\ managerState # connectionState
    /\ (managerState.status = "CONNECTED" /\ connectionState.status # "CONNECTED")
          => Pending < MaxPending
    /\ Commit(setConnectionState(UI, managerState.status, managerState.error))
    /\ last' = NoEv
    /\ UNCHANGED <<managerState, selectedMode, selectedDevice, baudRate, connectionTimeoutRef,
                   wdTimers, att, tasks>>
    /\ UNCHANGED <<scanVars, logVars>>

(***************************************************************************)
(* Mode selector (lines 743-747, 856-873): the dropdown that opens the     *)
(* selector is disabled while connecting or connected; opening it, picking *)
(* a mode and closing it are taken as one step.                            *)
(***************************************************************************)
SelectMode(m) ==
    /\ ~(isConnecting \/ getEffectiveStatus = "CONNECTED")
    /\ m # selectedMode
    /\ selectedMode' = m
    /\ last' = NoEv
    /\ UNCHANGED <<managerState, connectionState, isConnecting, mavlinkData, selectedDevice, baudRate,
                   dataIntervalRef, pollTimers, connectionTimeoutRef,
                   wdTimers, att, fetches, tasks>>
    /\ UNCHANGED <<scanVars, logVars>>

(***************************************************************************)
(* Serial configuration modal and device scan                              *)
(***************************************************************************)
MaxScans == 2

\* Lines 159-164: scanForSerialDevices up to its await; the continuation
\* reads the selectedDevice of the render that created it.
scanForSerialDevices ==
    /\ Len(scans) < MaxScans
    /\ isLoadingDevices' = TRUE
    /\ scans' = Append(scans, [selectedDevice |-> selectedDevice])
    /\ availableDevices' = availableDevices
    /\ selectedDevice' = selectedDevice
    /\ last' = NoEv

\* What every step of the serial configuration leaves alone.
linkVars == <<managerState, connectionState, isConnecting, mavlinkData, baudRate,
              dataIntervalRef, pollTimers, connectionTimeoutRef, wdTimers,
              att, fetches, tasks>>

\* Lines 398-403 and 753-757: the Configure button.
openSerialConfiguration ==
    /\ selectedMode = "SERIAL"
    /\ ~showSerialConfig
    /\ ~(isConnecting \/ getEffectiveStatus = "CONNECTED")
    /\ scanForSerialDevices
    /\ showSerialConfig' = TRUE
    /\ UNCHANGED <<linkVars, selectedMode, logVars>>

\* Lines 907-911: the Refresh Devices button of the open modal.
RefreshDevices ==
    /\ showSerialConfig
    /\ ~isLoadingDevices
    /\ scanForSerialDevices
    /\ UNCHANGED <<showSerialConfig, linkVars, selectedMode, logVars>>

\* Lines 900, 998, 1006: Cancel, Apply or the back button closes the modal.
CloseSerialConfig ==
    /\ showSerialConfig
    /\ showSerialConfig' = FALSE
    /\ last' = NoEv
    /\ UNCHANGED <<availableDevices, isLoadingDevices, scans, selectedDevice,
                   linkVars, selectedMode, logVars>>

\* Lines 928-936: a device of the list is pressed.
SelectDevice(k) ==
    /\ showSerialConfig
    /\ selectedDevice' = availableDevices[k]
    /\ last' = NoEv
    /\ UNCHANGED <<scanVars, linkVars, selectedMode, logVars>>

\* Lines 164-209, 214-216: getSerialDeviceInfo() answers with deviceInfo.
ScanReturns(i, deviceInfo) ==
    /\ LET d == devices(deviceInfo)
       IN  /\ availableDevices' = d
           /\ selectedDevice' = IF scans[i].selectedDevice = Null /\ Len(d) > 0
                                 THEN d[1]
                                 ELSE selectedDevice
    /\ isLoadingDevices' = FALSE
    /\ scans' = RemoveAt(scans, i)
    /\ last' = Ev("scan", IF deviceInfo = <<>> THEN "empty" ELSE "list")
    /\ UNCHANGED <<showSerialConfig, linkVars, selectedMode, logVars>>

\* Lines 211-216: getSerialDeviceInfo() throws.
ScanThrows(i) ==
    /\ isLoadingDevices' = FALSE
    /\ scans' = RemoveAt(scans, i)
    /\ last' = Ev("scan", "throw")
    /\ UNCHANGED <<availableDevices, selectedDevice, showSerialConfig,
                   linkVars, selectedMode, logVars>>

ScanNext ==
    \/ \E m \in Modes : SelectMode(m)
    \/ openSerialConfiguration
    \/ RefreshDevices
    \/ CloseSerialConfig
    \/ \E k \in DOMAIN availableDevices : SelectDevice(k)
    \/ \E i \in DOMAIN scans, deviceInfo \in RawLists : ScanReturns(i, deviceInfo)
    \/ \E i \in DOMAIN scans : ScanThrows(i)

(***************************************************************************)
(* Serial log variant (App of src/unnamed/part_000): a connect / disconnect *)
(* toggle and a log of the MavlinkDataUpdate events of the transport.      *)
(***************************************************************************)
MaxToggles == 2

MaxEvents == 22

MaxRejected == 1

\* prev.slice(-19) keeps this many entries (line 14).
KeptEntries == 19

\* Event payloads: text that is no JSON, the JSON null, the empty object,
\* and an object with fields.
Payloads == {"bad", "null", "{}", "msg"}

\* JSON.parse(event.payload) and Object.keys of its value (lines 12-13).
JSONparse(payload) ==
    CASE payload = "bad"  -> [threw |-> TRUE,  truthy |-> FALSE, keys |-> 0]
      [] payload = "null" -> [threw |-> FALSE, truthy |-> FALSE, keys |-> 0]
      [] payload = "{}"   -> [threw |-> FALSE, truthy |-> TRUE,  keys |-> 0]
      [] payload = "msg"  -> [threw |-> FALSE, truthy |-> TRUE,  keys |-> 2]

\* s.slice(-n): the last n elements of s, all of s when it has fewer.
sliceLast_All(s, n) == s

sliceLast(s, n) == IF Len(s) <= n THEN s ELSE SubSeq(s, Len(s) - n + 1, Len(s))

\* Lines 11-21: the listener's update of the log for one event; an entry is
\* the parsed data with the time of its arrival.
listener(log, payload, time) ==
    LET data == JSONparse(payload)
    IN  IF ~data.threw /\ data.truthy /\ data.keys > 0
        THEN Append(sliceLast(log, KeptEntries), [data |-> payload, time |-> time])
        ELSE log

\* What no step of the serial log variant writes.
appVars == <<linkVars, selectedMode, selectedDevice, scanVars>>

\* The transport raises MavlinkDataUpdate.
MavlinkDataUpdate(payload) ==
    /\ arrived < MaxEvents
    /\ LET log == listener(mavlinkLog, payload, arrived + 1)
       IN  /\ log = mavlinkLog => rejected < MaxRejected
           /\ mavlinkLog' = log
           /\ rejected' = IF log = mavlinkLog THEN rejected + 1 ELSE rejected
    /\ arrived' = arrived + 1
    /\ last' = Ev("event", payload)
    /\ UNCHANGED <<isConnected, toggles, appVars>>

\* Lines 30-37: toggleConnection up to its await; which call is awaited
\* follows the isConnected of the render that created the handler.
toggleConnection ==
    /\ Len(toggles) < MaxToggles
    /\ toggles' = Append(toggles, [isConnected |-> isConnected])
    /\ last' = NoEv
    /\ UNCHANGED <<isConnected, mavlinkLog, arrived, rejected, appVars>>

toggled_Regardless(wasConnected, r, flag, log) ==
    IF wasConnected
    THEN [isConnected |-> FALSE, log |-> <<>>]
    ELSE [isConnected |-> TRUE, log |-> log]

\* Lines 33-42: what follows the awaited call's answer r.
toggled(wasConnected, r, flag, log) ==
    IF r = "throw"
    THEN [isConnected |-> flag, log |-> log]
    ELSE IF wasConnected
         THEN [isConnected |-> FALSE, log |-> <<>>]
         ELSE [isConnected |-> TRUE, log |-> log]

\* stopConnection('SERIAL') / initConnection('SERIAL') answers.
ToggleReturns(i, r) ==
    /\ LET t == toggled(toggles[i].isConnected, r, isConnected, mavlinkLog)
       IN  /\ isConnected' = t.isConnected
           /\ mavlinkLog' = t.log
    /\ toggles' = RemoveAt(toggles, i)
    /\ last' = Ev("toggle", r)
    /\ UNCHANGED <<arrived, rejected, appVars>>

LogNext ==
    \/ toggleConnection
    \/ \E i \in DOMAIN toggles, r \in {"ok", "throw"} : ToggleReturns(i, r)
    \/ \E payload \in Payloads : MavlinkDataUpdate(payload)

Next ==
    \/ handleConnect
    \/ \E a \in DOMAIN att, r \in {"ok", "throw"} : StartReturns(a, r)
    \/ \E a \in DOMAIN att, r \in {"true", "false", "throw"} : BindReturns(a, r)
    \/ \E a \in DOMAIN att : SettleCheck(a)
    \/ \E a \in DOMAIN att : VerifyReturns(a)
    \/ \E a \in DOMAIN att, r \in {"ok", "throw"} : AttemptTeardownReturns(a, r)
    \/ \E a \in wdTimers : WatchdogFire(a)
    \/ handleDisconnect
    \/ \E i \in DOMAIN tasks, r \in {"ok", "throw"} : TaskTeardownReturns(i, r)
    \/ handleSendGuidedCommand
    \/ handleSendSerialData
    \/ \E i \in DOMAIN tasks, r \in {"ok", "linkloss", "rejected"} : SendReturns(i, r)
    \/ \E t \in pollTimers : PollTick(t)
    \/ \E i \in DOMAIN fetches, r \in {"data", "empty", "throw"} : FetchReturns(i, r)
    \/ \E i \in DOMAIN fetches, r \in {"ok", "throw"} : FetchTeardownReturns(i, r)
    \/ TransportConnecting
    \/ LinkUp
    \/ LinkFail
    \/ Notify
    \/ \E m \in Modes : SelectMode(m)

Spec == Init /\ [][Next]_vars

BaudSpec == BaudInit /\ [][Next]_vars

\* The serial configuration on its own, the link at rest.
ScanSpec == Init /\ [][ScanNext]_vars

\* The serial log variant.
LogSpec == Init /\ [][LogNext]_vars

\* Timers fire and every transport call other than the handshake answers;
\* the handshake (startConnection, connectSerialDevice) and the transport's
\* own status changes are under no obligation.
FairSpec ==
    /\ Spec
    /\ SF_vars(Notify)
    /\ WF_vars(\E a \in wdTimers : WatchdogFire(a))
    /\ WF_vars(\E a \in DOMAIN att : SettleCheck(a))
    /\ WF_vars(\E a \in DOMAIN att : VerifyReturns(a))
    /\ WF_vars(\E a \in DOMAIN att, r \in {"ok", "throw"} : AttemptTeardownReturns(a, r))
    /\ WF_vars(\E i \in DOMAIN tasks, r \in {"ok", "throw"} : TaskTeardownReturns(i, r))

(***************************************************************************)
(* Properties                                                              *)
(***************************************************************************)
DiscCount == Cardinality({i \in DOMAIN tasks : tasks[i].kind = "disc"})

HandlerCount == Cardinality({i \in DOMAIN fetches : fetches[i].pc \in {"stop", "cleanup"}})

\* C1: whenever a handleDisconnect invocation ends, the status is
\* DISCONNECTED, the poll interval is stopped, no watchdog is armed other
\* than for an attempt still awaiting its handshake, and the telemetry
\* sample is cleared.
C1_DisconnectEndsDisconnected ==
    [][DiscCount' < DiscCount =>
        /\ managerState'.status = "DISCONNECTED"
        /\ dataIntervalRef' = 0
        /\ pollTimers' = {}
        /\ \A a \in wdTimers' : a \in DOMAIN att' /\ att'[a].pc \in {"start", "bind"}
        /\ mavlinkData' = "null"]_vars

\* C2: an attempt that a disconnect cancelled during its settle interval
\* never runs the failure handler (never awaits the handler's teardown).
C2_CancelledSettleAborts ==
    \A a \in DOMAIN att :
        att[a].cancelled => att[a].pc \notin {"stop", "cleanup"}

\* C3: when an attempt whose settle check failed ends, the status is ERROR
\* and the connecting flag is cleared.
C3_SettleFailureEndsInError ==
    [][\A a \in DOMAIN att :
         (att[a].failedAt = "settle" /\ a \notin DOMAIN att') =>
            (managerState'.status = "ERROR" /\ ~isConnecting')]_vars

\* The step is the firing of watchdog timeout a (a clear resets the ref,
\* a new attempt replaces it).
WatchdogFired(a) ==
    /\ a \in wdTimers
    /\ a \notin wdTimers'
    /\ connectionTimeoutRef' = connectionTimeoutRef

\* C4: when the watchdog fires for an attempt whose handshake has not
\* answered, the failure handler is started, and it is started for no
\* attempt that has answered.
C4_WatchdogStartsFailureHandler ==
    [][\A a \in DOMAIN att :
         WatchdogFired(a) =>
            ((att[a].pc \in {"start", "bind"}) <=> (Len(tasks') = Len(tasks) + 1))]_vars

\* C5: the display never stays CONNECTING forever: whenever the local
\* connecting flag is set it is eventually cleared.
C5_ConnectingEventuallyLeft == isConnecting ~> ~isConnecting

\* C6: the exposed status is one of the four values and an error message
\* is exposed exactly when the exposed status is ERROR.
C6_ErrorIffStatusError ==
    /\ getEffectiveStatus \in Statuses
    /\ connectionState.error <=> (getEffectiveStatus = "ERROR")

NoDevice(a) == att[a].serial /\ att[a].dev = Null

C8_BindFailureRollsBack ==
    [][\A a \in DOMAIN att :
         att[a].failedAt = "bind" =>
            /\ att[a].pc \in {"stop", "cleanup"}
            /\ a \notin DOMAIN att' =>
                  (att[a].pc = "cleanup" /\ managerState'.status # "CONNECTED")]_vars

\* C9: when a fetch raises an error the poller is stopped and no cycle
\* issued after the failing one exists.
C9_NoPollAfterFailingOne ==
    [][(last'.op = "fetch" /\ last'.info = "throw") =>
         /\ dataIntervalRef' = 0
         /\ pollTimers' = {}
         /\ \A i \in DOMAIN fetches :
              (fetches[i].pc = "fetch" /\ Len(fetches') = Len(fetches)
                 /\ fetches'[i].pc = "stop") => i = Len(fetches)]_vars

\* C10: a fetch that answers with an empty sample changes nothing but the
\* published sample: status, connecting flag, poll interval, handlers and
\* attempts are as before, no failure handler is started, and the empty
\* sample is the current sample.
C10_EmptySampleIsNotFailure ==
    [][(last'.op = "fetch" /\ last'.info = "empty") =>
         /\ mavlinkData' = "empty"
         /\ connectionState' = connectionState
         /\ isConnecting' = isConnecting
         /\ dataIntervalRef' = dataIntervalRef
         /\ pollTimers' = pollTimers
         /\ HandlerCount' = HandlerCount
         /\ Len(fetches') = Len(fetches) - 1
         /\ tasks' = tasks
         /\ att' = att]_vars

C10_Witness ==
    /\ last = Ev("fetch", "empty")
    /\ mavlinkData = "empty"
    /\ connectionState.status = "CONNECTED"
    /\ dataIntervalRef # 0
    /\ pollTimers # {}

\* C11: once the component's status is not CONNECTED the published sample
\* is cleared and stays cleared: no late fetch result overwrites it.
C11_LateFetchDiscarded ==
    connectionState.status # "CONNECTED" => mavlinkData = "null"

\* C12: the poll interval is armed only while the component's status is
\* CONNECTED; so every change of that status away from CONNECTED leaves no
\* interval armed, and no further cycle is issued.
C12_PollerOnlyWhileConnected ==
    (dataIntervalRef # 0 \/ pollTimers # {}) => connectionState.status = "CONNECTED"

\* The status left CONNECTED in the middle of a cycle.
C12_Witness ==
    /\ connectionState.status # "CONNECTED"
    /\ pollTimers = {}
    /\ \E i \in DOMAIN fetches : fetches[i].pc = "fetch"

SendCount == Cardinality({i \in DOMAIN tasks : tasks[i].pc = "send"})

ErrCount == Cardinality({i \in DOMAIN tasks : tasks[i].kind = "err"})

\* C13: a send operation of the transport is invoked only when the
\* manager's status, as it is at the press, is CONNECTED.
C13_SendOnlyWhenConnected ==
    [][SendCount' > SendCount => managerState.status = "CONNECTED"]_vars

\* C14: a failed send starts the failure handler (poller stopped, teardown
\* awaited) exactly when its reason is link loss; a rejected command leaves
\* poller, sample and link as they are.
C14_EscalateIffLinkLoss ==
    [][(last'.op = "send" /\ last'.info # "ok") =>
         IF last'.info = "linkloss"
         THEN ErrCount' = ErrCount + 1 /\ dataIntervalRef' = 0
         ELSE /\ ErrCount' = ErrCount
              /\ UNCHANGED <<managerState, mavlinkData, dataIntervalRef, pollTimers>>]_vars

\* C15: when the handshake of one attempt resolves (it leaves start / bind
\* for the settle wait or for its catch block), the watchdog armed by any
\* other attempt stays armed.
C15_DisarmKeyedToAttempt ==
    [][\A a, b \in DOMAIN att :
         (/\ a # b
          /\ att[a].pc \in {"start", "bind"}
          /\ a \in DOMAIN att'
          /\ att'[a].pc \notin {"start", "bind"}
          /\ b \in wdTimers) => b \in wdTimers']_vars

\* C16: when an attempt that failed (at any step) ends, its watchdog is
\* disarmed and, unless a status notification is still to be delivered,
\* the telemetry poller is not running.  (Its stopConnection has been
\* invoked: a failed attempt ends only from its teardown.)
C16_FailedAttemptLeavesNothingRunning ==
    [][\A a \in DOMAIN att :
         (att[a].failedAt # "none" /\ a \notin DOMAIN att') =>
            /\ att[a].pc \in {"stop", "cleanup"}
            /\ a \notin wdTimers'
            /\ \/ managerState' # connectionState'
               \/ (dataIntervalRef' = 0 /\ pollTimers' = {})]_vars

\* Failure handling that awaits a teardown call: attempts in their catch
\* block or in handleConnectionError, and handleConnectionError started by
\* a fetch, a send or a timer.
FailureHandlers ==
    Cardinality({a \in DOMAIN att : att[a].pc \in {"stop", "cleanup"}})
      + Cardinality({i \in DOMAIN tasks : tasks[i].kind = "err"})
      + HandlerCount

\* An attempt that has not cleared the connecting flag yet.
LiveAttempt == \E a \in DOMAIN att : att[a].failedAt \in {"none", "settle"}

\* C17: when failure handling ends on a teardown call that threw, the
\* connecting flag is clear (unless a newer attempt has set it) and the
\* telemetry sample is cleared.
C17_TeardownErrorSwallowed ==
    [][(last' = Ev("teardown", "throw") /\ FailureHandlers' < FailureHandlers) =>
         /\ isConnecting' => LiveAttempt'
         /\ mavlinkData' = "null"]_vars

Resting == {"DISCONNECTED", "ERROR"}

\* C18: an attempt begins its handshake only when the status is
\* DISCONNECTED or ERROR (as the manager reports it, or at least as the
\* component last saw it).
C18_ConnectOnlyFromRest ==
    [][\A a \in DOMAIN att' \ DOMAIN att :
         att'[a].pc = "start" =>
            (managerState.status \in Resting \/ connectionState.status \in Resting)]_vars

\* C19: the selected mode changes only while the status is DISCONNECTED
\* and no connection attempt is in flight.
C19_ModeFixedDuringAttempt ==
    [][selectedMode' # selectedMode =>
         (connectionState.status = "DISCONNECTED" /\ DOMAIN att = {})]_vars

\* C20: connectSerialDevice is only ever invoked with a positive integer
\* baud rate: an attempt whose baud-rate text does not parse to one never
\* reaches a transport call of the handshake.
C20_BaudRateValidated ==
    \A a \in DOMAIN att :
        att[a].pc \in {"start", "bind"} /\ att[a].serial =>
            (~att[a].baud.nan /\ att[a].baud.val > 0)

\* C21: a scan whose enumeration came back empty always publishes the same
\* list, the four conventional paths in their fixed order with ids 0..3;
\* it selects the first entry when no device is selected at that moment,
\* and leaves a selection that exists as it is.
C21_FallbackListAndSelection ==
    [][(last'.op = "scan" /\ last'.info = "empty") =>
         /\ availableDevices' = FallbackDevices
         /\ Len(availableDevices') = 4
         /\ \A k \in 1..4 : availableDevices'[k].id = k - 1
         /\ selectedDevice = Null => selectedDevice' = availableDevices'[1]
         /\ selectedDevice # Null => selectedDevice' = selectedDevice]_vars

\* C22: the device list a scan publishes has pairwise distinct ids.
C22_ScanIdsDistinct ==
    \A j, k \in DOMAIN availableDevices :
        availableDevices[j].id = availableDevices[k].id => j = k

\* C26: when a scan has published its list, the selected device is an entry
\* of that list.
C26_SelectionInCurrentList ==
    [][(last'.op = "scan" /\ last'.info # "throw") =>
         \E k \in DOMAIN availableDevices' : availableDevices'[k] = selectedDevice']_vars

\* C23: every heartbeat frame handed to the transport starts with 0xFE and
\* its second byte is the number of payload bytes: the frame is 6 header
\* bytes, that many payload bytes and 2 checksum bytes long.
C23_HeartbeatFrameLayout ==
    \A i \in DOMAIN tasks :
        tasks[i].kind = "heartbeat" =>
            /\ tasks[i].data[1] = 254
            /\ Len(tasks[i].data) = 6 + tasks[i].data[2] + 2

\* C24: when the settle check of an attempt that a disconnect cancelled
\* starts the failure handler's teardown, no newer attempt is awaiting its
\* handshake: the stale continuation does not invoke stopConnection under
\* a later connect.  (A disconnect clears the armed watchdog, so an attempt
\* whose watchdog is armed began after the disconnect that cancelled a.)
C24_StaleSettleSparesNewerAttempt ==
    [][\A a \in DOMAIN att :
         (/\ att[a].cancelled
          /\ att[a].pc = "settle"
          /\ a \in DOMAIN att'
          /\ att'[a].pc = "stop") =>
            \A b \in DOMAIN att \ {a} :
                ~(b \in wdTimers /\ att[b].pc \in {"start", "bind"})]_vars

\* C25: at most one poll interval and at most one watchdog timeout are
\* armed, and an armed timer is the one its ref holds.
C25_NoTimerLeaked ==
    /\ Cardinality(pollTimers) <= 1
    /\ \A t \in pollTimers : t.id = dataIntervalRef
    /\ Cardinality(wdTimers) <= 1
    /\ \A a \in wdTimers : a = connectionTimeoutRef

\* A second attempt has armed its watchdog while the first, whose
\* watchdog was cleared, still awaits its handshake.
C25_Witness ==
    \E a, b \in DOMAIN att :
        /\ a # b
        /\ att[a].pc \in {"start", "bind"}
        /\ a \notin wdTimers
        /\ wdTimers = {b}
        /\ connectionTimeoutRef = b

\* The step is the handling of one MavlinkDataUpdate event.
EventStep == arrived' = arrived + 1

\* C27: the log never holds more than 20 entries; an event with a
\* non-empty parsed object becomes the newest entry behind the at most 19
\* newest entries of before, in their order; an event whose payload does
\* not parse, or parses to nothing or to an empty object, leaves the log
\* as it is.
C27_LogKeepsLatestTwenty ==
    [][EventStep =>
         /\ Len(mavlinkLog') <= 20
         /\ IF last'.info = "msg"
            THEN LET n == Len(mavlinkLog)
                     m == Len(mavlinkLog')
                 IN  /\ m = IF n < 20 THEN n + 1 ELSE 20
                     /\ mavlinkLog'[m] = [data |-> "msg", time |-> arrived']
                     /\ \A k \in 1..(m - 1) : mavlinkLog'[k] = mavlinkLog[n - (m - 1) + k]
            ELSE mavlinkLog' = mavlinkLog]_vars

\* The log is full, its oldest entries were dropped, and an event was
\* rejected on the way.
C27_Witness ==
    /\ Len(mavlinkLog) = 20
    /\ mavlinkLog[1].time > 1
    /\ rejected > 0
    /\ last = Ev("event", "msg")

\* C28: the connected flag changes only in a step in which the awaited
\* transport call of a toggle completed without throwing; when that call
\* throws, the connected flag and the log are left as they are.
C28_ToggleFlipsOnlyOnSuccess ==
    [][/\ isConnected' # isConnected => last' = Ev("toggle", "ok")
       /\ last' = Ev("toggle", "throw") =>
              (isConnected' = isConnected /\ mavlinkLog' = mavlinkLog)]_vars

\* A disconnect has just failed: still connected, the log still filled.
C28_Witness ==
    /\ last = Ev("toggle", "throw")
    /\ isConnected
    /\ mavlinkLog # <<>>

\* C29: the log is empty whenever the connected flag is false.
C29_LogEmptyWhileDisconnected ==
    ~isConnected => mavlinkLog = <<>>

====
